---- MODULE Spec2Model ----
(***************************************************************************)
(* PtitTacToe: the tic-tac-toe engine (tic-tac-toe-engine.ts) and the peer *)
(* session component that drives it (the App component).                   *)
(*                                                                         *)
(* Conventions.  A board is a function over 0..length-1, as the 0-based    *)
(* JavaScript array it models.  A cell is "X", "O" or Null.  An absent or  *)
(* undefined winner is NoWinner, an absent or undefined winningLine is     *)
(* NoLine.  A JavaScript number used as a move index is the record         *)
(* [whole |-> floor(v), frac |-> 0 or 1]: frac = 1 is a non-integer value. *)
(***************************************************************************)
EXTENDS Integers, Sequences, FiniteSets, TLC

DefaultBoardSize == 3
MinBoardSize == 3

\* the largest board size explored
MaxBoardSize == 4
\* a game's first moves are played on any cell; past this many moves the game
\* goes on with autoPlay (failing playMove calls are explored in every state)
MaxFreeMoves == 3
\* the same, on boards larger than the default
MaxFreeMovesLarge == 1
\* evaluator inputs on boards larger than the default hold at most this many marks
MaxMarksLarge == 4
\* the caller alters the snapshots it holds at most this many times
MaxMutations == 1
\* cell clicks made by the two peers of a session, in total
MaxClicks == 2
\* local resets made by the two peers of a session, in total
MaxResets == 1
\* messages in the chat log of one peer
MaxChat == 1
\* connections of one session counted as failed before they opened
MaxFaults == 1

X == "X"
O == "O"
Null == "null"
Players == {X, O}
NoWinner == "undefined"
NoLine == <<>>

InProgress == "in-progress"
Won == "won"
Draw == "draw"
Idle == "idle"

Ok == "ok"
GameNotInProgress == "GameNotInProgress"
IndexOutOfRange == "IndexOutOfRange"
CellOccupied == "CellOccupied"
SizeMismatch == "SizeMismatch"
NoMovesAvailable == "NoMovesAvailable"

Num(i) == [whole |-> i, frac |-> 0]
Half(i) == [whole |-> i, frac |-> 1]
IsInteger(index) == index.frac = 0

totalCells(boardSize) == boardSize * boardSize
BoardLength(board) == Cardinality(DOMAIN board)

createEmptySnapshot(boardSize, firstPlayer) ==
  [ board |-> [i \in 0..(totalCells(boardSize) - 1) |-> Null],
    status |-> InProgress,
    currentPlayer |-> firstPlayer,
    winner |-> NoWinner,
    winningLine |-> NoLine,
    moveCount |-> 0,
    history |-> <<>> ]

togglePlayer(player) == IF player = X THEN O ELSE X

\* rows, then columns, then the main diagonal, then the anti-diagonal
computeWinningLines(boardSize) ==
  [row \in 1..boardSize |->
      [idx \in 1..boardSize |-> (row - 1) * boardSize + (idx - 1)]]
  \o [col \in 1..boardSize |->
      [idx \in 1..boardSize |-> (idx - 1) * boardSize + (col - 1)]]
  \o << [idx \in 1..boardSize |-> (idx - 1) * (boardSize + 1)] >>
  \o << [idx \in 1..boardSize |-> idx * (boardSize - 1)] >>

\* the test of one line: only its first three cells are read
LineIsWon(board, line) ==
  /\ board[line[1]] # Null
  /\ board[line[1]] = board[line[2]]
  /\ board[line[1]] = board[line[3]]

evaluateBoard(board, boardSize) ==
  LET winningLines == computeWinningLines(boardSize)
      hits == {k \in 1..Len(winningLines) : LineIsWon(board, winningLines[k])}
  IN  IF hits # {}
      THEN LET first == CHOOSE k \in hits : \A m \in hits : k <= m
               line == winningLines[first]
           IN [status |-> Won, winner |-> board[line[1]], winningLine |-> line]
      ELSE IF \A i \in DOMAIN board : board[i] # Null
      THEN [status |-> Draw, winner |-> NoWinner, winningLine |-> NoLine]
      ELSE [status |-> InProgress, winner |-> NoWinner, winningLine |-> NoLine]

\* faulty variant: winner and winningLine are not taken over
loadSnapshotDropsWinner(snap, boardSize, external) ==
  IF BoardLength(external.board) # totalCells(boardSize)
  THEN [err |-> SizeMismatch, snap |-> snap]
  ELSE [err |-> Ok,
        snap |-> [ board |-> external.board,
                   status |-> external.status,
                   currentPlayer |-> external.currentPlayer,
                   winner |-> NoWinner,
                   winningLine |-> NoLine,
                   moveCount |-> external.moveCount,
                   history |-> external.history ]]

\* faulty variant: the occupancy check is missing
assertMoveIsAllowedNoOccupancy(snap, boardSize, index) ==
  IF snap.status # InProgress THEN GameNotInProgress
  ELSE IF ~IsInteger(index) \/ index.whole < 0 \/ index.whole >= totalCells(boardSize)
  THEN IndexOutOfRange
  ELSE Ok

\* faulty variant: the status check is missing
assertMoveIsAllowedNoStatus(snap, boardSize, index) ==
  IF ~IsInteger(index) \/ index.whole < 0 \/ index.whole >= totalCells(boardSize)
  THEN IndexOutOfRange
  ELSE IF snap.board[index.whole] # Null THEN CellOccupied
  ELSE Ok

assertMoveIsAllowed(snap, boardSize, index) ==
  IF snap.status # InProgress THEN GameNotInProgress
  ELSE IF ~IsInteger(index) \/ index.whole < 0 \/ index.whole >= totalCells(boardSize)
  THEN IndexOutOfRange
  ELSE IF snap.board[index.whole] # Null THEN CellOccupied
  ELSE Ok

\* faulty variant: moveCount is not incremented
applyAllowedMoveNoCount(snap, boardSize, index) ==
  LET board == [snap.board EXCEPT ![index.whole] = snap.currentPlayer]
      statusResult == evaluateBoard(board, boardSize)
  IN [ board |-> board,
       status |-> statusResult.status,
       currentPlayer |-> IF statusResult.status = InProgress
                         THEN (IF snap.currentPlayer = X THEN O ELSE X)
                         ELSE snap.currentPlayer,
       winner |-> statusResult.winner,
       winningLine |-> statusResult.winningLine,
       moveCount |-> snap.moveCount,
       history |-> Append(snap.history,
                          [index |-> index.whole, player |-> snap.currentPlayer]) ]

\* faulty variant: the player is toggled even when the move ends the game
applyAllowedMoveAlwaysToggle(snap, boardSize, index) ==
  LET board == [snap.board EXCEPT ![index.whole] = snap.currentPlayer]
      statusResult == evaluateBoard(board, boardSize)
  IN [ board |-> board,
       status |-> statusResult.status,
       currentPlayer |-> IF snap.currentPlayer = X THEN O ELSE X,
       winner |-> statusResult.winner,
       winningLine |-> statusResult.winningLine,
       moveCount |-> snap.moveCount + 1,
       history |-> Append(snap.history,
                          [index |-> index.whole, player |-> snap.currentPlayer]) ]

\* the snapshot playMove builds once the move is allowed
applyAllowedMove(snap, boardSize, index) ==
  LET board == [snap.board EXCEPT ![index.whole] = snap.currentPlayer]
      history == Append(snap.history,
                        [index |-> index.whole, player |-> snap.currentPlayer])
      moveCount == snap.moveCount + 1
      statusResult == evaluateBoard(board, boardSize)
      nextPlayer == IF statusResult.status = InProgress
                    THEN togglePlayer(snap.currentPlayer)
                    ELSE snap.currentPlayer
  IN [ board |-> board,
       status |-> statusResult.status,
       currentPlayer |-> nextPlayer,
       winner |-> statusResult.winner,
       winningLine |-> statusResult.winningLine,
       moveCount |-> moveCount,
       history |-> history ]

\* a call's outcome: the error thrown (Ok: none) and the engine's snapshot after it
playMove(snap, boardSize, index) ==
  LET err == assertMoveIsAllowed(snap, boardSize, index)
  IN  IF err # Ok THEN [err |-> err, snap |-> snap]
      ELSE [err |-> Ok, snap |-> applyAllowedMove(snap, boardSize, index)]

getAvailableMoves(snap) ==
  LET n == BoardLength(snap.board)
      F[k \in 0..n] ==
        IF k = 0 THEN <<>>
        ELSE IF snap.board[k - 1] = Null THEN Append(F[k - 1], k - 1) ELSE F[k - 1]
  IN F[n]

canPlay(snap, boardSize, index) ==
  /\ index >= 0
  /\ index < totalCells(boardSize)
  /\ snap.board[index] = Null
  /\ snap.status = InProgress

\* faulty variant: the highest available cell is played
autoPlayHighest(snap, boardSize) ==
  LET moves == getAvailableMoves(snap)
  IN  IF moves = <<>> THEN [err |-> NoMovesAvailable, snap |-> snap]
      ELSE playMove(snap, boardSize, Num(moves[Len(moves)]))

autoPlay(snap, boardSize) ==
  LET moves == getAvailableMoves(snap)
  IN  IF moves = <<>> THEN [err |-> NoMovesAvailable, snap |-> snap]
      ELSE playMove(snap, boardSize, Num(moves[1]))

loadSnapshot(snap, boardSize, external) ==
  IF BoardLength(external.board) # totalCells(boardSize)
  THEN [err |-> SizeMismatch, snap |-> snap]
  ELSE [err |-> Ok,
        snap |-> [ board |-> external.board,
                   status |-> external.status,
                   currentPlayer |-> external.currentPlayer,
                   winner |-> external.winner,
                   winningLine |-> external.winningLine,
                   moveCount |-> external.moveCount,
                   history |-> external.history ]]

reset(boardSize, firstPlayer) == createEmptySnapshot(boardSize, firstPlayer)

\* the values of the copy handed out; what it shares with the engine's own
\* snapshot (the move objects, the winningLine array) is tracked by the callers
cloneSnapshot(snap) ==
  [ board |-> snap.board,
    status |-> snap.status,
    currentPlayer |-> snap.currentPlayer,
    winner |-> snap.winner,
    winningLine |-> snap.winningLine,
    moveCount |-> snap.moveCount,
    history |-> snap.history ]

----------------------------------------------------------------------------
\* One engine and the calls made on it.

VARIABLES
  size,        \* the engine's boardSize
  snapshot,    \* the engine's private snapshot
  lastCall,    \* the last call made on the engine and the error it threw
  inputBoard,  \* evaluator check: the board handed to evaluateBoard
  evalResult,  \* evaluator check: what evaluateBoard returned for it
  caller,      \* the snapshot object a caller of the engine holds
  sharedMoves, \* positions k where caller.history[k] and snapshot.history[k]
               \* are one and the same move object
  sharedLine,  \* caller.winningLine and snapshot.winningLine are one array
  mutations,   \* how many times the caller altered what it holds
  peers,       \* session: the state of each peer's App component
  net,         \* session: net[p] the messages sent to p and not yet delivered
  offer,       \* session: the joiner's connect request on its way to the host
  clicks,      \* session: cell clicks made so far
  resets,      \* session: local resets made so far
  app,         \* one peer: the App's fields
  sent,        \* one peer: the payloads its last handler sent
  lastEvent,   \* one peer: the handler that ran last and how it ended
  faults,      \* one peer: failure events delivered so far
  released     \* one peer: the connections it released, handlers still on

engineVars == <<size, snapshot, lastCall>>
evalVars == <<inputBoard, evalResult>>
callerVars == <<caller, sharedMoves, sharedLine, mutations>>
sessionVars == <<peers, net, offer, clicks, resets>>
appVars == <<app, sent, lastEvent, faults, released>>
vars == <<size, snapshot, lastCall, inputBoard, evalResult,
          caller, sharedMoves, sharedLine, mutations,
          peers, net, offer, clicks, resets,
          app, sent, lastEvent, faults, released>>

NotEvaluated == [status |-> "not-evaluated"]
EvalUnused == inputBoard = <<>> /\ evalResult = NotEvaluated
CallerUnused ==
  caller = <<>> /\ sharedMoves = {} /\ sharedLine = FALSE /\ mutations = 0
SessionUnused ==
  peers = <<>> /\ net = <<>> /\ offer = "none" /\ clicks = 0 /\ resets = 0
AppUnused ==
  /\ app = <<>> /\ sent = <<>> /\ lastEvent = <<>> /\ faults = 0
  /\ released = {}

BoardSizes == MinBoardSize..MaxBoardSize

MoveInputs(boardSize) ==
  {Num(i) : i \in -1..totalCells(boardSize)} \cup {Half(1)}

FreeMoves(boardSize) ==
  IF boardSize = DefaultBoardSize THEN MaxFreeMoves ELSE MaxFreeMovesLarge

RECURSIVE playAll(_, _, _)
playAll(snap, boardSize, indexes) ==
  IF indexes = <<>> THEN snap
  ELSE playAll(playMove(snap, boardSize, Num(Head(indexes))).snap, boardSize,
               Tail(indexes))

\* Snapshots handed to loadSnapshot: one taken from another engine of the same
\* size in mid-game, one from a finished game, one from an engine of the next
\* size, and the mid-game one with its moveCount altered in transit.
PeerMidGame(boardSize) ==
  playAll(createEmptySnapshot(boardSize, X), boardSize, <<4, 0, 8, 2>>)
PeerFinished(boardSize) ==
  playAll(createEmptySnapshot(boardSize, O), boardSize,
          <<0, boardSize, 1, boardSize + 1, 2>>)
PeerOtherSize(boardSize) ==
  playAll(createEmptySnapshot(boardSize + 1, X), boardSize + 1, <<4, 0>>)
PeerAltered(boardSize) ==
  [PeerMidGame(boardSize) EXCEPT !.moveCount = 0]

ExternalSnapshots ==
  [boardSize \in BoardSizes |->
    { PeerMidGame(boardSize), PeerFinished(boardSize),
      PeerOtherSize(boardSize), PeerAltered(boardSize) }]

EngineInit ==
  /\ size \in BoardSizes
  /\ snapshot = createEmptySnapshot(size, X)
  /\ lastCall = [op |-> "constructor", err |-> Ok]

Init == EngineInit /\ EvalUnused /\ CallerUnused /\ SessionUnused /\ AppUnused

Reset(firstPlayer) ==
  /\ snapshot' = reset(size, firstPlayer)
  /\ lastCall' = [op |-> "reset", err |-> Ok]
  /\ UNCHANGED <<size, evalVars, callerVars, sessionVars, appVars>>

LoadSnapshot(external) ==
  \E r \in {loadSnapshot(snapshot, size, external)} :
     /\ snapshot' = r.snap
     /\ lastCall' = [op |-> "loadSnapshot", err |-> r.err]
     /\ UNCHANGED <<size, evalVars, callerVars, sessionVars, appVars>>

PlayMove(index) ==
  /\ assertMoveIsAllowed(snapshot, size, index) = Ok
       => snapshot.moveCount < FreeMoves(size)
  /\ \E r \in {playMove(snapshot, size, index)} :
     /\ snapshot' = r.snap
     /\ lastCall' = [op |-> "playMove", err |-> r.err]
     /\ UNCHANGED <<size, evalVars, callerVars, sessionVars, appVars>>

AutoPlay ==
  \E r \in {autoPlay(snapshot, size)} :
     /\ snapshot' = r.snap
     /\ lastCall' = [op |-> "autoPlay", err |-> r.err]
     /\ UNCHANGED <<size, evalVars, callerVars, sessionVars, appVars>>

Next ==
  \/ \E firstPlayer \in Players : Reset(firstPlayer)
  \/ \E external \in ExternalSnapshots[size] : LoadSnapshot(external)
  \/ \E index \in MoveInputs(size) : PlayMove(index)
  \/ AutoPlay

Spec == Init /\ [][Next]_vars

\* the engine driven by reset, playMove and autoPlay alone
NextPlay ==
  \/ \E firstPlayer \in Players : Reset(firstPlayer)
  \/ \E index \in MoveInputs(size) : PlayMove(index)
  \/ AutoPlay

SpecPlay == Init /\ [][NextPlay]_vars

----------------------------------------------------------------------------
\* The board evaluator applied to boards of every shape: every board of the
\* default size, and the boards of larger sizes that hold few marks.

Cells == {X, O, Null}

EvalBoards(boardSize) ==
  LET all == [0..(totalCells(boardSize) - 1) -> Cells]
  IN  IF boardSize = DefaultBoardSize THEN all
      ELSE { [i \in 0..(totalCells(boardSize) - 1) |->
                IF i \in DOMAIN marks THEN marks[i] ELSE Null] :
             marks \in UNION { [cells -> Players] :
                                cells \in { c \in SUBSET (0..(totalCells(boardSize) - 1)) :
                                              Cardinality(c) <= MaxMarksLarge } } }

InitEval ==
  /\ size \in BoardSizes
  /\ inputBoard \in EvalBoards(size)
  /\ evalResult = NotEvaluated
  /\ snapshot = createEmptySnapshot(size, X)
  /\ lastCall = [op |-> "constructor", err |-> Ok]
  /\ CallerUnused
  /\ SessionUnused /\ AppUnused

Evaluate ==
  /\ evalResult = NotEvaluated
  /\ evalResult' = evaluateBoard(inputBoard, size)
  /\ UNCHANGED <<inputBoard, size, snapshot, lastCall, callerVars, sessionVars, appVars>>

NextEval == Evaluate

SpecEval == InitEval /\ [][NextEval]_vars

----------------------------------------------------------------------------
\* The engine and one caller that keeps a snapshot object: the one getSnapshot
\* returned (every other call returns the same cloneSnapshot()), or the one it
\* passed to loadSnapshot.  The caller may write into the object it holds.
\* cloneSnapshot and loadSnapshot copy the snapshot object, the board array
\* and the history array, and nothing below them: the move objects in history
\* and the winningLine array are shared between the engine and the caller.

InitCaller ==
  /\ size = DefaultBoardSize
  /\ snapshot = createEmptySnapshot(size, X)
  /\ lastCall = [op |-> "constructor", err |-> Ok]
  /\ caller = cloneSnapshot(snapshot)
  /\ sharedMoves = {}
  /\ sharedLine = FALSE
  /\ mutations = 0
  /\ EvalUnused
  /\ SessionUnused /\ AppUnused

CallerReset(firstPlayer) ==
  /\ snapshot' = reset(size, firstPlayer)
  /\ lastCall' = [op |-> "reset", err |-> Ok]
  /\ sharedMoves' = {}
  /\ sharedLine' = FALSE
  /\ UNCHANGED <<size, caller, mutations, evalVars, sessionVars, appVars>>

\* the games played here are autoPlay's; playMove builds a new history array
\* around the same move objects and takes a winningLine array fresh from
\* computeWinningLines
CallerAutoPlay ==
  \E r \in {autoPlay(snapshot, size)} :
     /\ snapshot' = r.snap
     /\ lastCall' = [op |-> "autoPlay", err |-> r.err]
     /\ sharedLine' = IF r.err = Ok THEN FALSE ELSE sharedLine
     /\ UNCHANGED <<size, caller, sharedMoves, mutations, evalVars, sessionVars, appVars>>

GetSnapshot ==
  /\ caller' = cloneSnapshot(snapshot)
  /\ sharedMoves' = 1..Len(snapshot.history)
  /\ sharedLine' = (snapshot.winningLine # NoLine)
  /\ lastCall' = [op |-> "getSnapshot", err |-> Ok]
  /\ UNCHANGED <<size, snapshot, mutations, evalVars, sessionVars, appVars>>

\* loadSnapshot of the object the caller holds
CallerLoadSnapshot ==
  \E r \in {loadSnapshot(snapshot, size, caller)} :
     /\ snapshot' = r.snap
     /\ lastCall' = [op |-> "loadSnapshot", err |-> r.err]
     /\ sharedMoves' = IF r.err = Ok THEN 1..Len(caller.history) ELSE sharedMoves
     /\ sharedLine' = IF r.err = Ok THEN caller.winningLine # NoLine ELSE sharedLine
     /\ UNCHANGED <<size, caller, mutations, evalVars, sessionVars, appVars>>

Mutated ==
  /\ mutations < MaxMutations
  /\ mutations' = mutations + 1
  /\ lastCall' = [op |-> "caller-write", err |-> Ok]
  /\ UNCHANGED <<size, evalVars, sessionVars, appVars>>

\* held.board[i] = v
WriteBoardCell(i, v) ==
  /\ i \in DOMAIN caller.board
  /\ caller.board[i] # v
  /\ caller' = [caller EXCEPT !.board[i] = v]
  /\ Mutated
  /\ UNCHANGED <<snapshot, sharedMoves, sharedLine>>

\* held.board.push(null)
PushBoardCell ==
  /\ caller' = [caller EXCEPT
                   !.board = [i \in 0..BoardLength(caller.board) |->
                                IF i \in DOMAIN caller.board
                                THEN caller.board[i] ELSE Null]]
  /\ Mutated
  /\ UNCHANGED <<snapshot, sharedMoves, sharedLine>>

\* held.moveCount = held.moveCount + 1
WriteMoveCount ==
  /\ caller' = [caller EXCEPT !.moveCount = @ + 1]
  /\ Mutated
  /\ UNCHANGED <<snapshot, sharedMoves, sharedLine>>

\* held.history.pop()
PopHistory ==
  /\ caller.history # <<>>
  /\ caller' = [caller EXCEPT !.history = SubSeq(@, 1, Len(@) - 1)]
  /\ sharedMoves' = sharedMoves \ {Len(caller.history)}
  /\ Mutated
  /\ UNCHANGED <<snapshot, sharedLine>>

\* held.history[k].index = another cell, for the last move k
WriteMove ==
  /\ caller.history # <<>>
  /\ LET k == Len(caller.history)
         other == (caller.history[k].index + 1) % totalCells(size)
     IN /\ caller' = [caller EXCEPT !.history[k].index = other]
        /\ snapshot' = IF k \in sharedMoves
                       THEN [snapshot EXCEPT !.history[k].index = other]
                       ELSE snapshot
  /\ Mutated
  /\ UNCHANGED <<sharedMoves, sharedLine>>

\* held.winningLine[0] = another cell
WriteWinningLine ==
  /\ caller.winningLine # NoLine
  /\ LET other == (caller.winningLine[1] + 1) % totalCells(size)
     IN /\ caller' = [caller EXCEPT !.winningLine[1] = other]
        /\ snapshot' = IF sharedLine
                       THEN [snapshot EXCEPT !.winningLine[1] = other]
                       ELSE snapshot
  /\ Mutated
  /\ UNCHANGED <<sharedMoves, sharedLine>>

WrittenCells == {0, 4}

NextCaller ==
  \/ \E firstPlayer \in Players : CallerReset(firstPlayer)
  \/ CallerAutoPlay
  \/ GetSnapshot
  \/ CallerLoadSnapshot
  \/ \E i \in WrittenCells, v \in Cells : WriteBoardCell(i, v)
  \/ PushBoardCell
  \/ WriteMoveCount
  \/ PopHistory
  \/ WriteMove
  \/ WriteWinningLine

SpecCaller == InitCaller /\ [][NextCaller]_vars

----------------------------------------------------------------------------
\* A session between two peers, each running the App component with its own
\* engine of the default size.  One peer hosts, the other joins.  The channel
\* between them delivers in order and without loss: net[p] is the queue of
\* payloads sent to p.  Each handler runs to completion.

Host == "host"
Joiner == "joiner"
Peers == {Host, Joiner}
Other(p) == IF p = Host THEN Joiner ELSE Host
usernames == [p \in Peers |-> IF p = Host THEN "Al" ELSE "Bo"]

\* String.trim on the strings typed here
trim(text) == IF text = " " THEN "" ELSE text

\* the App's fields after construction.  peer, peerOpen, conn and initiator
\* stand for this.peer (which of startHosting and joinGame created it and
\* whether it has opened) and this.connection (absent, not yet open, open;
\* the initiator argument its handlers were set up with)
AppInit ==
  [ username |-> "",
    connectionState |-> "idle",
    localPlayer |-> Null,
    opponentName |-> "",
    hostPeerId |-> "",
    chatMessages |-> <<>>,
    infoMessage |-> Null,
    errorMessage |-> Null,
    engine |-> createEmptySnapshot(DefaultBoardSize, X),
    gameState |-> cloneSnapshot(createEmptySnapshot(DefaultBoardSize, X)),
    peer |-> "none",
    peerOpen |-> FALSE,
    conn |-> "none",
    initiator |-> FALSE ]

\* a handler's outcome: the App's fields after it, the payloads it handed to
\* sendPayload, in order, the error that escaped it, the error it caught and
\* logged, and whether it closed the connection it was given
Outcome(st, out) ==
  [st |-> st, out |-> out, err |-> Ok, log |-> Ok, closed |-> FALSE]

setError(st, message) ==
  [st EXCEPT !.errorMessage = message,
             !.infoMessage = IF message # Null /\ message # "" THEN Null ELSE @]

canPlayCell(st, index) ==
  /\ st.gameState.status = InProgress
  /\ index \in DOMAIN st.gameState.board
  /\ st.gameState.board[index] = Null
  /\ st.connectionState = "connected"
  /\ st.localPlayer # Null
  /\ st.gameState.currentPlayer = st.localPlayer

\* faulty variant: a remote move is refused on the receiver's own turn
applyMoveChecksTurn(st, index, origin) ==
  LET r == playMove(st.engine, DefaultBoardSize, index)
  IN  IF r.err = Ok /\ (origin = "local" \/ st.engine.currentPlayer # st.localPlayer)
      THEN Outcome([st EXCEPT !.engine = r.snap,
                              !.gameState = cloneSnapshot(r.snap)],
                   IF origin = "local"
                   THEN << [type |-> "move", index |-> index] >> ELSE <<>>)
      ELSE [Outcome(st, <<>>) EXCEPT !.log = r.err]

\* faulty variant: the engine's error is not caught
applyMoveThrows(st, index, origin) ==
  LET r == playMove(st.engine, DefaultBoardSize, index)
  IN  IF r.err = Ok
      THEN Outcome([st EXCEPT !.engine = r.snap,
                              !.gameState = cloneSnapshot(r.snap)],
                   IF origin = "local"
                   THEN << [type |-> "move", index |-> index] >> ELSE <<>>)
      ELSE [Outcome(st, <<>>) EXCEPT !.err = r.err]

\* index is a number as playMove takes it
applyMove(st, index, origin) ==
  LET r == playMove(st.engine, DefaultBoardSize, index)
  IN  IF r.err = Ok
      THEN Outcome([st EXCEPT !.engine = r.snap,
                              !.gameState = cloneSnapshot(r.snap)],
                   IF origin = "local"
                   THEN << [type |-> "move", index |-> index] >> ELSE <<>>)
      ELSE [Outcome(st, <<>>) EXCEPT !.log = r.err]

\* faulty variant: the turn is not checked
handleCellClickAnyTurn(st, index) ==
  IF st.connectionState # "connected" THEN Outcome(st, <<>>)
  ELSE applyMove(st, Num(index), "local")

handleCellClick(st, index) ==
  IF ~canPlayCell(st, index) THEN Outcome(st, <<>>)
  ELSE applyMove(st, Num(index), "local")

\* faulty variant: a received reset is announced in turn
resetGameAlwaysAnnounces(st, announce) ==
  LET fresh == reset(DefaultBoardSize, X)
  IN Outcome([st EXCEPT !.engine = fresh, !.gameState = cloneSnapshot(fresh)],
             IF st.connectionState = "connected"
             THEN << [type |-> "reset"] >> ELSE <<>>)

resetGame(st, announce) ==
  LET fresh == reset(DefaultBoardSize, X)
  IN Outcome([st EXCEPT !.engine = fresh, !.gameState = cloneSnapshot(fresh)],
             IF announce /\ st.connectionState = "connected"
             THEN << [type |-> "reset"] >> ELSE <<>>)

sendChatMessage(st, text) ==
  IF st.connectionState # "connected" \/ trim(text) = "" THEN Outcome(st, <<>>)
  ELSE Outcome([st EXCEPT !.chatMessages =
                            Append(@, [ sender |-> "self",
                                        username |-> trim(st.username),
                                        text |-> trim(text) ])],
               << [ type |-> "chat", message |-> trim(text),
                    username |-> trim(st.username) ] >>)

releaseConnectionOnly(st) == [st EXCEPT !.conn = "none"]

cleanupPeer(st) ==
  [releaseConnectionOnly(st) EXCEPT !.peer = "none", !.peerOpen = FALSE]

prepareForNewSession(st) ==
  [resetGame(cleanupPeer(st), FALSE).st EXCEPT !.chatMessages = <<>>,
                                               !.opponentName = "",
                                               !.hostPeerId = ""]

startHosting(st) ==
  IF trim(st.username) = "" THEN setError(st, "Choose a username first.")
  ELSE [prepareForNewSession(setError(st, Null))
          EXCEPT !.connectionState = "hosting",
                 !.localPlayer = X,
                 !.peer = "host"]

joinGame(st, joinTargetId) ==
  IF trim(st.username) = "" THEN setError(st, "Choose a username first.")
  ELSE IF trim(joinTargetId) = ""
       THEN setError(setError(st, Null), "Enter a host ID to join.")
       ELSE [prepareForNewSession(setError(st, Null))
               EXCEPT !.connectionState = "joining",
                      !.localPlayer = O,
                      !.peer = "joiner"]

\* faulty variant: the mark and the chat log are kept
handleDisconnectKeepsMark(st, message) ==
  cleanupPeer([st EXCEPT !.infoMessage = message,
                         !.connectionState = "idle",
                         !.opponentName = ""])

handleDisconnect(st, message) ==
  cleanupPeer([st EXCEPT !.infoMessage = message,
                         !.connectionState = "idle",
                         !.localPlayer = Null,
                         !.opponentName = "",
                         !.chatMessages = <<>>])

cancelConnection(st) == handleDisconnect(st, "Session cancelled.")

\* faulty variant: a host gives up on the first failed attempt, as a joiner does
handlePreOpenFailureAlwaysIdle(st, message) ==
  setError(handleDisconnect(st, "Failed to connect to host."), message)

handlePreOpenFailure(st, message) ==
  IF st.connectionState = "hosting"
  THEN [setError(releaseConnectionOnly(st), message)
          EXCEPT !.infoMessage = "Still hosting. Waiting for another opponent."]
  ELSE IF st.connectionState = "joining"
       THEN setError(handleDisconnect(st, "Failed to connect to host."), message)
       ELSE handleDisconnect(st, message)

setupConnection(st, initiator) ==
  [st EXCEPT !.conn = "pending", !.chatMessages = <<>>, !.opponentName = "",
             !.initiator = initiator]

\* the endpoint's open handler set by startHosting
onHostPeerOpen(st, id) ==
  [st EXCEPT !.peerOpen = TRUE, !.hostPeerId = id,
             !.infoMessage = "Share your host ID with a friend to let them join."]

\* the endpoint's open handler set by joinGame; connects tells whether
\* peer.connect returned a connection
onJoinerPeerOpen(st, connects) ==
  IF ~connects
  THEN setError([st EXCEPT !.peerOpen = TRUE], "Unable to initiate connection.")
  ELSE setupConnection([st EXCEPT !.peerOpen = TRUE], TRUE)

\* faulty variant: an inbound connection always replaces the one held
onPeerConnectionAlwaysAccepts(st) == Outcome(setupConnection(st, FALSE), <<>>)

\* the endpoint's connection handler set by startHosting
onPeerConnection(st) ==
  IF st.conn # "none" THEN [Outcome(st, <<>>) EXCEPT !.closed = TRUE]
  ELSE Outcome(setupConnection(st, FALSE), <<>>)

\* the endpoint's error handler
onPeerError(st, message) == setError(st, message)

\* the connection's open handler
onConnectionOpen(st) ==
  Outcome(setError([st EXCEPT !.conn = "open",
                              !.connectionState = "connected",
                              !.infoMessage = "Peers connected. Have fun!"],
                   Null),
          IF st.initiator
          THEN << [type |-> "join", username |-> trim(st.username)] >>
          ELSE <<>>)

\* the connection's close handler; hasOpened is the flag of its closure
onConnectionClose(st, hasOpened) ==
  IF ~hasOpened
  THEN handlePreOpenFailure(st, "Connection closed before it could be established.")
  ELSE handleDisconnect(st, "Peer disconnected.")

\* the connection's error handler
onConnectionError(st, hasOpened, message) ==
  IF ~hasOpened
  THEN handlePreOpenFailure(st, "Negotiation failed: " \o message)
  ELSE handleDisconnect(st, message)

handleIncomingPayload(st, payload) ==
  CASE payload.type = "join" ->
         Outcome([st EXCEPT !.opponentName = payload.username,
                            !.infoMessage = "joined your lobby."],
                 << [ type |-> "host-ready",
                      username |-> trim(st.username),
                      youAre |-> O,
                      snapshot |-> cloneSnapshot(st.engine) ] >>)
    [] payload.type = "host-ready" ->
         LET named == [st EXCEPT !.opponentName = payload.username,
                                 !.localPlayer = payload.youAre]
             r == loadSnapshot(st.engine, DefaultBoardSize, payload.snapshot)
         IN  IF r.err = Ok
             THEN Outcome([named EXCEPT !.engine = r.snap,
                                        !.gameState = cloneSnapshot(r.snap),
                                        !.infoMessage = "You are playing as."],
                          <<>>)
             ELSE [Outcome(named, <<>>) EXCEPT !.err = r.err]
    [] payload.type = "move" -> applyMove(st, payload.index, "remote")
    [] payload.type = "reset" -> resetGame(st, FALSE)
    [] payload.type = "chat" ->
         Outcome([st EXCEPT !.chatMessages =
                              Append(@, [ sender |-> "peer",
                                          username |-> payload.username,
                                          text |-> payload.message ])],
                 <<>>)

\* sendPayload drops the payload unless the connection is open
sendPayload(st, queue, out) == IF st.conn = "open" THEN queue \o out ELSE queue

\* peer p ends a handler with outcome r
Handled(p, r) ==
  /\ peers' = [peers EXCEPT ![p] = r.st]
  /\ net' = [net EXCEPT ![Other(p)] = sendPayload(r.st, @, r.out)]

EngineUnused ==
  /\ size = DefaultBoardSize
  /\ snapshot = createEmptySnapshot(DefaultBoardSize, X)
  /\ lastCall = [op |-> "constructor", err |-> Ok]

InitSession ==
  /\ peers = [p \in Peers |-> [AppInit EXCEPT !.username = usernames[p]]]
  /\ net = [p \in Peers |-> <<>>]
  /\ offer = "none"
  /\ clicks = 0
  /\ resets = 0
  /\ EngineUnused /\ EvalUnused /\ CallerUnused /\ AppUnused

OutsideSession == <<engineVars, evalVars, callerVars, appVars>>

StartHosting ==
  /\ peers[Host].connectionState = "idle"
  /\ peers' = [peers EXCEPT ![Host] = startHosting(@)]
  /\ UNCHANGED <<net, offer, clicks, resets, OutsideSession>>

JoinGame ==
  /\ peers[Joiner].connectionState = "idle"
  /\ peers' = [peers EXCEPT ![Joiner] = joinGame(@, "host-id")]
  /\ UNCHANGED <<net, offer, clicks, resets, OutsideSession>>

\* the joiner's endpoint opens: it connects to the host
JoinerPeerOpen ==
  /\ peers[Joiner].peer = "joiner"
  /\ peers[Joiner].connectionState = "joining"
  /\ offer = "none"
  /\ peers' = [peers EXCEPT ![Joiner] = onJoinerPeerOpen(@, TRUE)]
  /\ offer' = "sent"
  /\ UNCHANGED <<net, clicks, resets, OutsideSession>>

\* the host's endpoint reports the inbound connection
HostConnection ==
  /\ offer = "sent"
  /\ peers[Host].peer = "host"
  /\ offer' = "taken"
  /\ peers' = [peers EXCEPT ![Host] = onPeerConnection(@).st]
  /\ UNCHANGED <<net, clicks, resets, OutsideSession>>

\* p's end of the data connection opens
ConnectionOpen(p) ==
  /\ peers[p].conn = "pending"
  /\ peers[Other(p)].conn # "none"
  /\ Handled(p, onConnectionOpen(peers[p]))
  /\ UNCHANGED <<offer, clicks, resets, OutsideSession>>

\* a click the App accepts; a click canPlayCell refuses changes nothing
CellClick(p, index) ==
  /\ clicks < MaxClicks
  /\ canPlayCell(peers[p], index)
  /\ Handled(p, handleCellClick(peers[p], index))
  /\ clicks' = clicks + 1
  /\ UNCHANGED <<offer, resets, OutsideSession>>

LocalReset(p) ==
  /\ resets < MaxResets
  /\ Handled(p, resetGame(peers[p], TRUE))
  /\ resets' = resets + 1
  /\ UNCHANGED <<offer, clicks, OutsideSession>>

\* the connection's data handler, on the oldest payload sent to p
Receive(p) ==
  /\ net[p] # <<>>
  /\ peers[p].conn = "open"
  /\ \E r \in {handleIncomingPayload(peers[p], Head(net[p]))} :
       /\ peers' = [peers EXCEPT ![p] = r.st]
       /\ net' = [net EXCEPT ![p] = Tail(@),
                             ![Other(p)] = sendPayload(r.st, @, r.out)]
  /\ UNCHANGED <<offer, clicks, resets, OutsideSession>>

ClickCells == 0..(totalCells(DefaultBoardSize) - 1)

\* from construction to the handshake, with clicks on either side
NextSession ==
  \/ StartHosting
  \/ JoinGame
  \/ JoinerPeerOpen
  \/ HostConnection
  \/ \E p \in Peers : ConnectionOpen(p)
  \/ \E p \in Peers, index \in ClickCells : CellClick(p, index)
  \/ \E p \in Peers : Receive(p)

SpecSession == InitSession /\ [][NextSession]_vars

\* the state of a session once the handshake is over and nothing was played:
\* both ends open, join and host-ready delivered
Connected(p) ==
  [ AppInit EXCEPT !.username = usernames[p],
                   !.connectionState = "connected",
                   !.localPlayer = IF p = Host THEN X ELSE O,
                   !.opponentName = usernames[Other(p)],
                   !.infoMessage = IF p = Host THEN "joined your lobby."
                                   ELSE "You are playing as.",
                   !.peer = p,
                   !.peerOpen = (p = Joiner),
                   !.conn = "open",
                   !.initiator = (p = Joiner) ]

InitConnected ==
  /\ peers = [p \in Peers |-> Connected(p)]
  /\ net = [p \in Peers |-> <<>>]
  /\ offer = "taken"
  /\ clicks = 0
  /\ resets = 0
  /\ EngineUnused /\ EvalUnused /\ CallerUnused /\ AppUnused

\* after the handshake: clicks, local resets and deliveries
NextConnected ==
  \/ \E p \in Peers, index \in ClickCells : CellClick(p, index)
  \/ \E p \in Peers : LocalReset(p)
  \/ \E p \in Peers : Receive(p)

SpecConnected == InitConnected /\ [][NextConnected]_vars

----------------------------------------------------------------------------
\* One peer and everything that can happen to it: the user's actions, the
\* events of its endpoint and of the data connection it holds, and any
\* payload a remote end can put on the connection, whether an App sent it or
\* not.  app is the App and sent the payloads its last handler put on the
\* connection.  lastEvent tells which handler ran last, the type of the
\* payload it was given, the error that escaped it, the error it logged,
\* whether it closed the connection it was given, and the parity of the
\* number of handlers run so far.  faults counts, up to MaxFaults, the
\* connections of the current session that failed before they opened.
\* Moves are made on SessionCells.

Usernames == {"", " ", "Al"}
JoinTargets == {"", "host-id"}
ErrorMessages == {"network"}
ChatTexts == {" ", "hi"}
SessionCells == {0, 4}
ClickInputs == SessionCells \cup {totalCells(DefaultBoardSize)}
RemoteMoves ==
  {Num(i) : i \in SessionCells \cup {-1, totalCells(DefaultBoardSize)}}
    \cup {Half(1)}

\* snapshots a host-ready can carry: the host's after one move, the host's
\* after a finished game, and one of an engine of the next size
HostAfterOneMove == playAll(createEmptySnapshot(DefaultBoardSize, X),
                            DefaultBoardSize, <<8>>)
HostSnapshots ==
  { HostAfterOneMove, PeerFinished(DefaultBoardSize),
    PeerOtherSize(DefaultBoardSize) }

\* payloads a remote end can send
Payloads ==
  { [type |-> "join", username |-> "Bo"], [type |-> "reset"],
    [type |-> "chat", message |-> "yo", username |-> "Bo"] }
  \cup { [type |-> "move", index |-> index] : index \in RemoteMoves }
  \cup { [type |-> "host-ready", username |-> "Bo", youAre |-> mark,
          snapshot |-> external] :
           mark \in Players, external \in HostSnapshots }

NoPayload == "none"

\* setupConnection puts close and error handlers on a connection and nothing
\* takes them off when the App releases it.  released holds, for the
\* connections released so far, what the hasOpened flag of their handlers
\* says; it is NotFollowed in a specification that delivers no event of a
\* released connection.
NotFollowed == {"not-followed"}
HasOpened(conn) == IF conn = "open" THEN "opened" ELSE "unopened"

\* released after a handler that took the App from before to after
Released(before, after) ==
  IF released = NotFollowed THEN released
  ELSE IF before.conn # "none" /\ after.conn = "none"
       THEN released \cup {HasOpened(before.conn)}
       ELSE released

InitApp ==
  /\ app \in {[AppInit EXCEPT !.username = username] : username \in Usernames}
  /\ sent = <<>>
  /\ lastEvent = [ type |-> "constructor", payload |-> NoPayload, err |-> Ok,
                   log |-> Ok, closed |-> FALSE, parity |-> 0 ]
  /\ faults = 0
  /\ released = NotFollowed
  /\ EngineUnused /\ EvalUnused /\ CallerUnused /\ SessionUnused

OutsideApp == <<engineVars, evalVars, callerVars, sessionVars>>

\* the App ends the handler of an event with outcome r
Ran(type, payload, r) ==
  /\ app' = r.st
  /\ sent' = sendPayload(r.st, <<>>, r.out)
  /\ lastEvent' = [ type |-> type, payload |-> payload, err |-> r.err,
                    log |-> r.log, closed |-> r.closed,
                    parity |-> 1 - lastEvent.parity ]
  /\ released' = Released(app, r.st)

NoFault == UNCHANGED <<faults, OutsideApp>>

NewSession == faults' = 0 /\ UNCHANGED OutsideApp

\* the failure of the held connection, counted if it had not opened
Fault ==
  /\ faults' = IF app.conn = "pending" /\ faults < MaxFaults
               THEN faults + 1 ELSE faults
  /\ UNCHANGED OutsideApp

UserStartHosting ==
  /\ Ran("startHosting", NoPayload, Outcome(startHosting(app), <<>>))
  /\ NewSession

UserJoinGame(joinTargetId) ==
  /\ Ran("joinGame", NoPayload, Outcome(joinGame(app, joinTargetId), <<>>))
  /\ NewSession

UserCancel ==
  /\ Ran("cancelConnection", NoPayload, Outcome(cancelConnection(app), <<>>))
  /\ NoFault

UserClick(index) ==
  /\ Ran("click", NoPayload, handleCellClick(app, index))
  /\ NoFault

UserReset ==
  /\ Ran("resetGame", NoPayload, resetGame(app, TRUE))
  /\ NoFault

UserChat(text) ==
  /\ Len(app.chatMessages) < MaxChat
  /\ Ran("sendChatMessage", NoPayload, sendChatMessage(app, text))
  /\ NoFault

HostPeerOpen ==
  /\ app.peer = "host" /\ ~app.peerOpen
  /\ Ran("peer-open", NoPayload, Outcome(onHostPeerOpen(app, "host-id"), <<>>))
  /\ NoFault

JoinerPeerOpens(connects) ==
  /\ app.peer = "joiner" /\ ~app.peerOpen
  /\ Ran("peer-open", NoPayload, Outcome(onJoinerPeerOpen(app, connects), <<>>))
  /\ NoFault

PeerConnection ==
  /\ app.peer = "host"
  /\ Ran("peer-connection", NoPayload, onPeerConnection(app))
  /\ NoFault

PeerError(message) ==
  /\ app.peer # "none"
  /\ Ran("peer-error", NoPayload, Outcome(onPeerError(app, message), <<>>))
  /\ NoFault

ChannelOpen ==
  /\ app.conn = "pending"
  /\ Ran("open", NoPayload, onConnectionOpen(app))
  /\ NoFault

ChannelData(payload) ==
  /\ app.conn = "open"
  /\ payload.type = "chat" => Len(app.chatMessages) < MaxChat
  /\ Ran("data", payload.type, handleIncomingPayload(app, payload))
  /\ NoFault

\* hasOpened of the held connection's handlers is set by its open handler
ChannelClose ==
  /\ app.conn # "none"
  /\ Ran("close", NoPayload,
         Outcome(onConnectionClose(app, app.conn = "open"), <<>>))
  /\ Fault

ChannelError(message) ==
  /\ app.conn # "none"
  /\ Ran("error", NoPayload,
         Outcome(onConnectionError(app, app.conn = "open", message), <<>>))
  /\ Fault

NextApp ==
  \/ UserStartHosting
  \/ \E joinTargetId \in JoinTargets : UserJoinGame(joinTargetId)
  \/ UserCancel
  \/ \E index \in ClickInputs : UserClick(index)
  \/ UserReset
  \/ \E text \in ChatTexts : UserChat(text)
  \/ HostPeerOpen
  \/ \E connects \in BOOLEAN : JoinerPeerOpens(connects)
  \/ PeerConnection
  \/ \E message \in ErrorMessages : PeerError(message)
  \/ ChannelOpen
  \/ \E payload \in Payloads : ChannelData(payload)
  \/ ChannelClose
  \/ \E message \in ErrorMessages : ChannelError(message)

SpecApp == InitApp /\ [][NextApp]_vars

----------------------------------------------------------------------------
\* One peer as above, and the events of the connections it has released:
\* their close and error handlers run as setupConnection set them, with the
\* hasOpened flag of their own closure.

InitStale ==
  /\ app \in {[AppInit EXCEPT !.username = username] : username \in Usernames}
  /\ sent = <<>>
  /\ lastEvent = [ type |-> "constructor", payload |-> NoPayload, err |-> Ok,
                   log |-> Ok, closed |-> FALSE, parity |-> 0 ]
  /\ faults = 0
  /\ released = {}
  /\ EngineUnused /\ EvalUnused /\ CallerUnused /\ SessionUnused

StaleClose(flag) ==
  /\ flag \in released
  /\ Ran("stale-close", NoPayload,
         Outcome(onConnectionClose(app, flag = "opened"), <<>>))
  /\ NoFault

StaleError(flag, message) ==
  /\ flag \in released
  /\ Ran("stale-error", NoPayload,
         Outcome(onConnectionError(app, flag = "opened", message), <<>>))
  /\ NoFault

NextStale ==
  \/ UserStartHosting
  \/ \E joinTargetId \in JoinTargets : UserJoinGame(joinTargetId)
  \/ UserCancel
  \/ \E index \in ClickInputs : UserClick(index)
  \/ UserReset
  \/ \E text \in ChatTexts : UserChat(text)
  \/ HostPeerOpen
  \/ \E connects \in BOOLEAN : JoinerPeerOpens(connects)
  \/ PeerConnection
  \/ \E message \in ErrorMessages : PeerError(message)
  \/ ChannelOpen
  \/ \E payload \in Payloads : ChannelData(payload)
  \/ ChannelClose
  \/ \E message \in ErrorMessages : ChannelError(message)
  \/ \E flag \in {"opened", "unopened"} : StaleClose(flag)
  \/ \E flag \in {"opened", "unopened"}, message \in ErrorMessages :
        StaleError(flag, message)

SpecStale == InitStale /\ [][NextStale]_vars

----------------------------------------------------------------------------
\* Properties of the engine.

NonEmptyCells(board) == Cardinality({i \in DOMAIN board : board[i] # Null})

Consistent(snap) ==
  /\ snap.moveCount = Len(snap.history)
  /\ snap.moveCount = NonEmptyCells(snap.board)

\* C3 as stated: whatever snapshot loadSnapshot accepted, moveCount ==
\* history.length == number of non-empty cells in every state of the engine.
C3_CountsAgreeAlways == Consistent(snapshot)

\* C3 amended: every successful reset, playMove and autoPlay, and every
\* loadSnapshot of a snapshot that itself has moveCount == history.length ==
\* number of non-empty cells, leaves the engine with these three equal when
\* they were equal before (they are equal after construction); failed calls
\* change nothing.
C3_CountsAgree ==
  [][ ( /\ Consistent(snapshot)
        /\ lastCall'.op = "loadSnapshot" =>
              \A external \in ExternalSnapshots[size] :
                 LoadSnapshot(external) => Consistent(external) )
      => Consistent(snapshot') ]_vars

C3_Witness ==
  /\ lastCall = [op |-> "loadSnapshot", err |-> Ok]
  /\ snapshot.moveCount = 4
  /\ Consistent(snapshot)

\* the lines of a board, written out from the board's geometry
Rows(n) == {{r * n + c : c \in 0..(n - 1)} : r \in 0..(n - 1)}
Columns(n) == {{r * n + c : r \in 0..(n - 1)} : c \in 0..(n - 1)}
Diagonals(n) ==
  {{k * n + k : k \in 0..(n - 1)}, {k * n + (n - 1 - k) : k \in 0..(n - 1)}}
AllLines(n) == Rows(n) \cup Columns(n) \cup Diagonals(n)
HeldBy(board, cells, mark) == \A i \in cells : board[i] = mark
SomeLineHeld(board, n) ==
  \E cells \in AllLines(n) : \E mark \in Players : HeldBy(board, cells, mark)
Range(seq) == {seq[k] : k \in 1..Len(seq)}

StatusInvariant(snap, n) ==
  /\ snap.status = Won =>
        /\ snap.winner \in Players
        /\ Len(snap.winningLine) = n
        /\ HeldBy(snap.board, Range(snap.winningLine), snap.winner)
  /\ snap.status = Draw =>
        /\ \A i \in DOMAIN snap.board : snap.board[i] # Null
        /\ ~SomeLineHeld(snap.board, n)
  /\ snap.status = InProgress =>
        /\ snap.winner = NoWinner
        /\ snap.winningLine = NoLine
        /\ \E i \in DOMAIN snap.board : snap.board[i] = Null

\* C4: in every state reached by reset, playMove and autoPlay, for every board
\* size, Won has a winner and a winning line whose n cells all hold the
\* winner's mark, Draw has a full board with no line held, InProgress has no
\* winner, no line and an empty cell.
C4_StatusInvariant == StatusInvariant(snapshot, size)

\* the reasons for which a playMove(index) must fail in the current state
FailureReasons(index) ==
  {e \in {GameNotInProgress} : snapshot.status # InProgress}
  \cup {e \in {IndexOutOfRange} :
          index.frac # 0 \/ index.whole < 0 \/ index.whole >= size * size}
  \cup {e \in {CellOccupied} :
          /\ index.frac = 0
          /\ index.whole \in DOMAIN snapshot.board
          /\ snapshot.board[index.whole] # Null}

\* C5: a playMove on an occupied cell, on an index that is out of range or not
\* an integer, or while the game is not in progress raises one of the errors
\* that apply and leaves every field of the snapshot as it was; a playMove
\* succeeds only on an index for which none of these reasons applies.
C5_FailedMoveChangesNothing ==
  [][ lastCall'.op = "playMove" =>
        /\ lastCall'.err # Ok =>
              /\ snapshot' = snapshot
              /\ \E index \in MoveInputs(size) :
                    lastCall'.err \in FailureReasons(index)
        /\ lastCall'.err = Ok =>
              \E index \in MoveInputs(size) :
                 /\ FailureReasons(index) = {}
                 /\ snapshot'.board[index.whole] # snapshot.board[index.whole]
    ]_vars

C5_Witness ==
  /\ lastCall = [op |-> "playMove", err |-> CellOccupied]
  /\ snapshot.status = InProgress
  /\ snapshot.moveCount > 0

\* C6: once the status is Won or Draw every playMove fails with
\* GameNotInProgress and every autoPlay fails, the snapshot staying as it is;
\* a playMove made while InProgress leads to Won, Draw or InProgress.
C6_TerminalStatus ==
  [][ /\ ( snapshot.status \in {Won, Draw} /\ lastCall'.op = "playMove" )
          => ( lastCall'.err = GameNotInProgress /\ snapshot' = snapshot )
      /\ ( snapshot.status \in {Won, Draw} /\ lastCall'.op = "autoPlay" )
          => ( /\ lastCall'.err \in {GameNotInProgress, NoMovesAvailable}
               /\ snapshot' = snapshot )
      /\ ( snapshot.status = InProgress /\ lastCall'.op = "playMove" )
          => snapshot'.status \in {Won, Draw, InProgress} ]_vars

C6_Witness ==
  /\ snapshot.status = Draw
  /\ lastCall = [op |-> "playMove", err |-> GameNotInProgress]

\* C7: a successful playMove(i) puts the pre-call currentPlayer on cell i and
\* changes no other cell, appends {i, currentPlayer} to history, adds one to
\* moveCount, sets status, winner and winningLine to the evaluator's result on
\* the new board, and toggles currentPlayer exactly when the new status is
\* InProgress.
C7_SuccessfulMove ==
  [][ ( lastCall'.op = "playMove" /\ lastCall'.err = Ok )
      => \E i \in DOMAIN snapshot.board :
           /\ snapshot.board[i] = Null
           /\ snapshot'.board[i] = snapshot.currentPlayer
           /\ \A j \in DOMAIN snapshot.board \ {i} :
                 snapshot'.board[j] = snapshot.board[j]
           /\ DOMAIN snapshot'.board = DOMAIN snapshot.board
           /\ snapshot'.history =
                 snapshot.history
                   \o << [index |-> i, player |-> snapshot.currentPlayer] >>
           /\ snapshot'.moveCount = snapshot.moveCount + 1
           /\ snapshot'.status = evaluateBoard(snapshot'.board, size).status
           /\ snapshot'.winner = evaluateBoard(snapshot'.board, size).winner
           /\ snapshot'.winningLine =
                 evaluateBoard(snapshot'.board, size).winningLine
           /\ snapshot'.currentPlayer \in Players
           /\ (snapshot'.currentPlayer # snapshot.currentPlayer)
                 <=> (snapshot'.status = InProgress) ]_vars

C7_Witness ==
  /\ lastCall = [op |-> "playMove", err |-> Ok]
  /\ snapshot.status = Won
  /\ snapshot.currentPlayer = snapshot.winner

\* C9: loadSnapshot of a snapshot whose board has size*size cells makes the
\* engine's snapshot equal to it in every field, whatever the engine held
\* (so a snapshot taken with getSnapshot and loaded into a fresh engine is
\* reproduced); with any other board length it fails with SizeMismatch and
\* the engine's snapshot stays as it was.
C9_LoadAdoptsVerbatim ==
  [][ lastCall'.op = "loadSnapshot" =>
        IF Cardinality(DOMAIN caller.board) = size * size
        THEN lastCall'.err = Ok /\ snapshot' = caller
        ELSE lastCall'.err = SizeMismatch /\ snapshot' = snapshot ]_vars

\* a snapshot taken in a won game, loaded back after a reset
C9_Witness ==
  /\ lastCall = [op |-> "loadSnapshot", err |-> Ok]
  /\ mutations = 0
  /\ snapshot.status = Won
  /\ snapshot = caller

\* C10: writing into a snapshot object the caller holds (its board array, its
\* history array, a move of its history, its winningLine array, its fields),
\* whether getSnapshot returned it or loadSnapshot was given it, changes
\* nothing of the engine's snapshot, hence nothing a later getSnapshot returns.
C10_CallerWritesDoNotReachEngine ==
  [][ lastCall'.op = "caller-write"
      => cloneSnapshot(snapshot') = cloneSnapshot(snapshot) ]_vars

\* the lines in the order the evaluator is to scan them: rows from the top,
\* columns from the left, the main diagonal, the anti-diagonal
LinesInOrder(n) ==
  [k \in 1..(2 * n + 2) |->
     IF k <= n THEN [j \in 1..n |-> (k - 1) * n + (j - 1)]
     ELSE IF k <= 2 * n THEN [j \in 1..n |-> (j - 1) * n + (k - n - 1)]
     ELSE IF k = 2 * n + 1 THEN [j \in 1..n |-> (j - 1) * n + (j - 1)]
     ELSE [j \in 1..n |-> (j - 1) * n + (n - j)]]

FullyHeld(board, line) ==
  /\ board[line[1]] \in Players
  /\ \A j \in 1..Len(line) : board[line[j]] = board[line[1]]

ExpectedEvaluation(board, n) ==
  LET lines == LinesInOrder(n)
      held == {k \in 1..Len(lines) : FullyHeld(board, lines[k])}
  IN  IF held # {}
      THEN LET k == CHOOSE h \in held : \A m \in held : h <= m
           IN [status |-> Won, winner |-> board[lines[k][1]],
               winningLine |-> lines[k]]
      ELSE IF \A i \in DOMAIN board : board[i] # Null
      THEN [status |-> Draw, winner |-> NoWinner, winningLine |-> NoLine]
      ELSE [status |-> InProgress, winner |-> NoWinner, winningLine |-> NoLine]

\* C8: for every board size and board, the evaluator answers Won exactly when
\* some row, column or diagonal has all n cells on one mark, with the winner
\* and line of the first such line in the order rows, columns, main diagonal,
\* anti-diagonal; otherwise Draw on a full board; otherwise InProgress with
\* no winner and no line.
C8_EvaluatorResult ==
  evalResult # NotEvaluated => evalResult = ExpectedEvaluation(inputBoard, size)

\* the part of C8 about the default 3x3 board, which the evaluator meets
C8_DefaultSizeResult ==
  (evalResult # NotEvaluated /\ size = DefaultBoardSize)
    => evalResult = ExpectedEvaluation(inputBoard, size)

EmptyCells(board) == {i \in DOMAIN board : board[i] = Null}

Ascending(seq) == \A i, j \in DOMAIN seq : i < j => seq[i] < seq[j]

AutoPlayOnFullBoard ==
  /\ lastCall = [op |-> "autoPlay", err |-> NoMovesAvailable]
  /\ EmptyCells(snapshot.board) = {}

----------------------------------------------------------------------------
\* Properties of the session.

Quiet == \A p \in Peers : net[p] = <<>>

\* C1: after the handshake, with both engines on equal snapshots, whatever
\* clicks accepted by canPlayCell and local resets the two peers make and in
\* whatever order the resulting move and reset messages are delivered, the
\* two engines hold equal snapshots whenever no message is in flight.
C1_EnginesAgreeWhenQuiet ==
  Quiet => cloneSnapshot(peers[Host].engine) = cloneSnapshot(peers[Joiner].engine)

\* the state InitConnected starts from, which a handshake without clicks reaches
HandshakeComplete == peers = [p \in Peers |-> Connected(p)] /\ Quiet

\* C2: once the joiner has applied host-ready and no message is in flight, the
\* joiner's mark is O and its board equals the host's board, whatever opens,
\* clicks and deliveries happened between the channel's opening and the
\* delivery of host-ready.
C2_JoinerAdoptsHostBoard ==
  ( peers[Joiner].opponentName # "" /\ Quiet )
    => /\ peers[Joiner].localPlayer = O
       /\ peers[Joiner].engine.board = peers[Host].engine.board

----------------------------------------------------------------------------
\* Properties of one peer.

\* what the claim names as the condition of an accepted click
ClickIsLegal(st, index) ==
  /\ st.connectionState = "connected"
  /\ st.engine.status = InProgress
  /\ index \in DOMAIN st.engine.board
  /\ st.engine.board[index] = Null
  /\ st.engine.currentPlayer = st.localPlayer

\* C11: a click on a cell changes the engine and sends a message only if the
\* session is connected, the game in progress, the cell empty and the
\* engine's currentPlayer this peer's mark; then the engine makes that move
\* without error, the published state follows, and exactly one move message
\* with that index is sent.  Any other click leaves the engine as it was and
\* sends nothing.
C11_ClickGuard ==
  [][ lastEvent'.type = "click" =>
        \A index \in ClickInputs :
           UserClick(index) =>
             IF ClickIsLegal(app, index)
             THEN /\ playMove(app.engine, DefaultBoardSize, Num(index)).err = Ok
                  /\ app'.engine =
                       playMove(app.engine, DefaultBoardSize, Num(index)).snap
                  /\ app'.engine # app.engine
                  /\ app'.gameState = cloneSnapshot(app'.engine)
                  /\ sent' = << [type |-> "move", index |-> Num(index)] >>
             ELSE /\ app'.engine = app.engine
                  /\ sent' = <<>> ]_vars

C11_Witness ==
  /\ lastEvent.type = "click"
  /\ sent = << [type |-> "move", index |-> Num(4)] >>
  /\ app.engine.board[4] = O

\* C12: when the connection held reports close or error before it opened, a
\* hosting peer stays hosting, keeps its endpoint and holds no connection any
\* more, and a joining peer becomes idle without endpoint or connection; an
\* inbound connection reaching a host that holds none is accepted.
C12_PreOpenFailure ==
  [][ /\ ( lastEvent'.type \in {"close", "error"} /\ app.conn = "pending" ) =>
           /\ app.connectionState \in {"hosting", "joining"}
           /\ app.connectionState = "hosting" =>
                 /\ app'.connectionState = "hosting"
                 /\ app'.peer = "host"
                 /\ app'.conn = "none"
                 /\ app'.localPlayer = X
           /\ app.connectionState = "joining" =>
                 /\ app'.connectionState = "idle"
                 /\ app'.peer = "none"
                 /\ app'.conn = "none"
      /\ ( lastEvent'.type = "peer-connection" /\ app.conn = "none" ) =>
           /\ app'.conn = "pending"
           /\ ~lastEvent'.closed
      /\ ( lastEvent'.type = "open" /\ app.connectionState = "hosting" ) =>
           app'.connectionState = "connected" ]_vars

\* a host is connected after a connection of the same session failed before
\* it opened
C12_Witness ==
  /\ lastEvent.type = "open"
  /\ app.connectionState = "connected"
  /\ app.peer = "host"
  /\ faults >= 1

\* a joiner is idle after its connection failed before it opened
JoinerGaveUp ==
  /\ lastEvent.type \in {"close", "error"}
  /\ app.connectionState = "idle"
  /\ app.errorMessage \in { "Connection closed before it could be established.",
                             "Negotiation failed: network" }

\* C13: an inbound connection reaching a host that holds a connection,
\* pending or open, is closed by the handler, which changes no field of the
\* App, sends nothing and throws nothing.
C13_InboundRejected ==
  [][ ( lastEvent'.type = "peer-connection" /\ app.conn # "none" ) =>
        /\ lastEvent'.closed
        /\ lastEvent'.err = Ok
        /\ app' = app
        /\ sent' = <<>> ]_vars

\* a connected host with a chat log has just closed an inbound connection
C13_Witness ==
  /\ lastEvent.type = "peer-connection"
  /\ lastEvent.closed
  /\ app.conn = "open"
  /\ app.chatMessages # <<>>

\* a host has just closed an inbound connection while the one it holds is
\* not open yet
InboundRejectedWhilePending ==
  /\ lastEvent.type = "peer-connection"
  /\ lastEvent.closed
  /\ app.conn = "pending"

IdleIsClean(st) ==
  st.connectionState = "idle" =>
    /\ st.localPlayer = Null
    /\ st.opponentName = ""
    /\ st.chatMessages = <<>>
    /\ st.conn = "none"
    /\ st.peer = "none"

\* the mark startHosting or joinGame bound for the session of the endpoint held
SessionMark(st) == IF st.peer = "host" THEN X ELSE O

C15_FailureLeadsToIdle ==
  [][ ( /\ lastEvent'.type \in {"peer-error", "error", "close"}
        /\ app.connectionState \in {"joining", "connected"} ) =>
        /\ app'.connectionState = "idle"
        /\ app'.infoMessage # Null \/ app'.errorMessage # Null ]_vars

\* the same for the events of the connection alone
ChannelFailureLeadsToIdle ==
  [][ ( /\ lastEvent'.type \in {"error", "close"}
        /\ app.connectionState \in {"joining", "connected"} ) =>
        /\ app'.connectionState = "idle"
        /\ app'.infoMessage # Null \/ app'.errorMessage # Null ]_vars

\* C16: a received move the engine rejects (cell occupied, index out of
\* range or not an integer, game not in progress) leaves every field of the
\* App as it was, the engine snapshot, the published state and
\* connectionState (connected) among them; nothing is sent and no error
\* escapes the handler, which logs the engine's error.
C16_RejectedMoveSwallowed ==
  [][ ( lastEvent'.type = "data" /\ lastEvent'.payload = "move" ) =>
        \A payload \in Payloads :
           ( /\ payload.type = "move"
             /\ ChannelData(payload)
             /\ playMove(app.engine, DefaultBoardSize, payload.index).err # Ok ) =>
             /\ app'.engine = app.engine
             /\ app'.gameState = app.gameState
             /\ app'.connectionState = "connected"
             /\ app' = app
             /\ sent' = <<>>
             /\ lastEvent'.err = Ok
             /\ lastEvent'.log =
                  playMove(app.engine, DefaultBoardSize, payload.index).err ]_vars

\* a move on an occupied cell has just been swallowed
C16_Witness ==
  /\ lastEvent.type = "data"
  /\ lastEvent.payload = "move"
  /\ lastEvent.log = CellOccupied
  /\ lastEvent.err = Ok

\* the other rejections are swallowed too
OutOfRangeMoveSwallowed ==
  lastEvent.type = "data" /\ lastEvent.log = IndexOutOfRange
FinishedGameMoveSwallowed ==
  lastEvent.type = "data" /\ lastEvent.log = GameNotInProgress

\* C17: a local reset leaves the engine on an empty board with X to move and
\* sends one reset message if connectionState is connected, none otherwise;
\* a received reset does the same to the engine and sends nothing; and no
\* handler of a received payload sends more than one message.
C17_ResetWithoutEcho ==
  [][ /\ lastEvent'.type = "resetGame" =>
           /\ app'.engine = createEmptySnapshot(DefaultBoardSize, X)
           /\ app'.gameState = cloneSnapshot(app'.engine)
           /\ sent' = IF app.connectionState = "connected"
                      THEN << [type |-> "reset"] >> ELSE <<>>
      /\ ( lastEvent'.type = "data" /\ lastEvent'.payload = "reset" ) =>
           /\ app'.engine = createEmptySnapshot(DefaultBoardSize, X)
           /\ app'.gameState = cloneSnapshot(app'.engine)
           /\ sent' = <<>>
      /\ lastEvent'.type = "data" => Len(sent') <= 1 ]_vars

\* a connected peer has just handled a received reset
C17_Witness ==
  /\ lastEvent.type = "data"
  /\ lastEvent.payload = "reset"
  /\ app.connectionState = "connected"
  /\ sent = <<>>

\* a local reset made while not connected sent nothing
ResetWhileHosting ==
  /\ lastEvent.type = "resetGame"
  /\ app.connectionState = "hosting"
  /\ sent = <<>>

InFlight == Len(net[Host]) + Len(net[Joiner])

\* between two peers: a delivery never leaves more messages in flight than
\* there were, and the delivery of a reset leaves one less
DeliveryDoesNotMultiply ==
  [][ \A p \in Peers :
        Receive(p) =>
          /\ InFlight' <= InFlight
          /\ Head(net[p]).type = "reset" => InFlight' = InFlight - 1 ]_vars

\* C19: no error of the engine escapes the handler of a received payload,
\* and a payload on which the engine fails leaves the engine snapshot, the
\* local mark and the opponent name as they were.
C19_EngineErrorsCaught ==
  [][ lastEvent'.type = "data" =>
        /\ lastEvent'.err = Ok
        /\ lastEvent'.log # Ok =>
              /\ app'.engine = app.engine
              /\ app'.localPlayer = app.localPlayer
              /\ app'.opponentName = app.opponentName ]_vars

\* the same for the payloads other than host-ready
OtherPayloadsErrorsCaught ==
  [][ ( lastEvent'.type = "data" /\ lastEvent'.payload # "host-ready" ) =>
        /\ lastEvent'.err = Ok
        /\ lastEvent'.log # Ok =>
              /\ app'.engine = app.engine
              /\ app'.localPlayer = app.localPlayer
              /\ app'.opponentName = app.opponentName ]_vars

\* C20: a received move on a cell that is in range and empty, while the
\* receiver's game is in progress, is applied as playMove applies it: the
\* cell takes the mark of the receiver engine's currentPlayer, whether or
\* not that is the receiver's own mark.
C20_RemoteMoveUnchecked ==
  [][ ( lastEvent'.type = "data" /\ lastEvent'.payload = "move" ) =>
        \A payload \in Payloads :
           ( /\ payload.type = "move"
             /\ ChannelData(payload)
             /\ app.engine.status = InProgress
             /\ IsInteger(payload.index)
             /\ payload.index.whole \in DOMAIN app.engine.board
             /\ app.engine.board[payload.index.whole] = Null ) =>
             /\ app'.engine.board =
                  [app.engine.board EXCEPT ![payload.index.whole] =
                                             app.engine.currentPlayer]
             /\ app'.engine =
                  playMove(app.engine, DefaultBoardSize, payload.index).snap
             /\ app'.gameState = cloneSnapshot(app'.engine)
             /\ lastEvent'.log = Ok ]_vars

\* a received move has just placed the receiver's own mark
C20_Witness ==
  /\ lastEvent.type = "data"
  /\ lastEvent.payload = "move"
  /\ lastEvent.log = Ok
  /\ app.engine.history # <<>>
  /\ app.engine.history[Len(app.engine.history)].player = app.localPlayer
  /\ app.engine.board[app.engine.history[Len(app.engine.history)].index]
       = app.localPlayer

\* the current session's fields the claim names
SessionFields(st) ==
  << st.connectionState, st.conn, st.chatMessages, st.localPlayer,
     st.opponentName >>

\* C21: a close or error event of a connection the peer has released leaves
\* connectionState, the connection held, the chat log, the local mark and
\* the opponent name as they were.
C21_StaleEventsIgnored ==
  [][ lastEvent'.type \in {"stale-close", "stale-error"} =>
        SessionFields(app') = SessionFields(app) ]_vars

\* a peer connected on one connection is idle once an event of another
\* connection, released before, has been handled
StaleEventEndedSession ==
  /\ lastEvent.type \in {"stale-close", "stale-error"}
  /\ app.connectionState = "idle"
  /\ "opened" \in released

====
